---- MODULE Spec2Model ----
(***************************************************************************)
(* Model of the micro-benchmark harness of src/src/utils/benchmark.ts:     *)
(* benchmark() measures a function once per requested size, derives growth *)
(* ratios, prints a complexity estimate and writes a chart into the        *)
(* analytics/ directory.                                                    *)
(*                                                                          *)
(* JavaScript numbers are modelled as exact rationals extended with NaN    *)
(* and the two infinities (IEEE rounding of finite results is not          *)
(* modelled).  A number is a record [k, n, d]: k = "fin" with n/d in       *)
(* lowest terms and d > 0, k = "inf" with n the sign, or k = "nan".        *)
(***************************************************************************)
EXTENDS Integers, Sequences, FiniteSets, TLC

\* ------------------------------------------------------------------ bounds
\* longest sizes list drawn for a run
MaxLen == 3
\* longest point sequence drawn when the metrics range over Metrics
MaxPts == 3

\* ------------------------------------------------------- JavaScript numbers
Abs(x) == IF x < 0 THEN -x ELSE x

RECURSIVE GCD(_, _)
GCD(a, b) == IF b = 0 THEN a ELSE GCD(b, a % b)

\* the finite number n/d (d # 0), in lowest terms with a positive denominator
Fin(n, d) ==
  LET sq == IF d < 0 THEN -1 ELSE 1
      g == GCD(Abs(n), Abs(d))
  IN  [k |-> "fin", n |-> (sq * n) \div g, d |-> Abs(d) \div g]

NaN == [k |-> "nan", n |-> 0, d |-> 1]
PosInf == [k |-> "inf", n |-> 1, d |-> 1]
NegInf == [k |-> "inf", n |-> -1, d |-> 1]

Sgn(a) == IF a.n < 0 THEN -1 ELSE 1
IsZero(a) == a.k = "fin" /\ a.n = 0

\* a / b of JavaScript: never throws; x/0 is an infinity, 0/0 is NaN
NumDiv(a, b) ==
  IF a.k = "nan" \/ b.k = "nan" THEN NaN
  ELSE IF a.k = "inf"
    THEN IF b.k = "inf" THEN NaN
         ELSE IF Sgn(a) * Sgn(b) < 0 THEN NegInf ELSE PosInf
  ELSE IF b.k = "inf" THEN Fin(0, 1)
  ELSE IF b.n = 0
    THEN IF a.n = 0 THEN NaN
         ELSE IF a.n < 0 THEN NegInf ELSE PosInf
  ELSE LET g1 == GCD(Abs(a.n), Abs(b.n))
           g2 == GCD(a.d, b.d)
       IN  Fin((a.n \div g1) * (b.d \div g2), (a.d \div g2) * (b.n \div g1))

\* a + b of JavaScript
NumAdd(a, b) ==
  IF a.k = "nan" \/ b.k = "nan" THEN NaN
  ELSE IF a.k = "inf"
    THEN IF b.k = "inf" /\ b.n # a.n THEN NaN ELSE a
  ELSE IF b.k = "inf" THEN b
  ELSE LET g == GCD(a.d, b.d)
       IN  Fin(a.n * (b.d \div g) + b.n * (a.d \div g), (a.d \div g) * b.d)

\* a - b of JavaScript
NumSub(a, b) == NumAdd(a, [b EXCEPT !.n = -b.n])

\* a < b of JavaScript: false as soon as one side is NaN
NumLt(a, b) ==
  IF a.k = "nan" \/ b.k = "nan" THEN FALSE
  ELSE IF a.k = "inf" THEN a.n < 0 /\ ~(b.k = "inf" /\ b.n < 0)
  ELSE IF b.k = "inf" THEN b.n > 0
  ELSE a.n * b.d < b.n * a.d

\* Math.max(a, b)
NumMax(a, b) ==
  IF a.k = "nan" \/ b.k = "nan" THEN NaN
  ELSE IF NumLt(a, b) THEN b ELSE a

\* x || y of JavaScript on numbers: 0 and NaN are falsy
NumOr(x, y) == IF IsZero(x) \/ x.k = "nan" THEN y ELSE x

\* ---------------------------------------------------------------- constants
\* Number(end - start) / 1_000_000 : nanoseconds per millisecond
NsPerMs == 1000000
\* (endMem - startMem) / 1024 / 1024
BytesPerKb == 1024
\* results[i - 1].memoryMb || 0.0001
Epsilon == Fin(1, 10000)

VerdictConstant == "O(1) ~ constant"
VerdictLinear == "O(n) ~ linear"
VerdictNearLinear == "O(n log n) ~ nearly-linear"
VerdictQuadratic == "O(n^2) or worse"
Verdicts == {VerdictConstant, VerdictLinear, VerdictNearLinear, VerdictQuadratic}

\* the benchmark() calls of a scenario, and the Node.js processes they run in
Runs == {1, 2}
Procs == {1, 2}

\* -------------------------------------------------------------------- state
VARIABLES
  proc,            \* proc[r]: the Node.js process that executes call r
  sizes,           \* sizes[r]: the sizes argument of call r
  outputFileName,  \* outputFileName[r]: the outputFileName argument of call r
  oracle,          \* oracle[r]: what the environment of call r will do:
                   \*   called = the scenario makes call r at all,
                   \*   elapsedNs[i], heapDeltaB[i] of the i-th invocation of fn,
                   \*   fault = which step throws, if any
  pc,              \* pc[r]: position of call r in benchmark()
  idx,             \* idx[r]: 1-based index of the size sizes.map is at
  input,           \* input[r]: the value generator(n) returned (identified by n)
  startMem,        \* startMem[r], start[r]: locals of measureTimeAndMemory
  start,
  results,         \* results[r]: the BenchmarkPoint sequence built so far
  timeRatios,      \* timeRatios[r], memRatios[r]: locals of benchmark()
  memRatios,
  callLog,         \* callLog[r]: calls of generator and fn made by call r, in order
  console,         \* console[r]: what call r printed, in order
  error,           \* error[r]: the error the promise of call r rejected with
  thread,          \* thread[p]: the call holding the JS thread of process p, or 0
  heapUsed,        \* heapUsed[p]: process.memoryUsage().heapUsed of process p
  hrtime,          \* hrtime[p]: process.hrtime.bigint() of process p
  fsDir,           \* TRUE iff <cwd>/analytics exists
  fsFiles,         \* the chart files in <cwd>/analytics: records [path, data]
  s,               \* the argument of lengthOfLongestSubstring: UTF-16 code units
  target,          \* the ECMAScript target the sources were compiled for
  charSet,         \* locals of lengthOfLongestSubstring
  maxLength,
  leftPointer,     \* 0-based, as in the source
  rightPointer,
  wpc              \* position of the call of lengthOfLongestSubstring

argVars == <<proc, sizes, outputFileName, oracle>>
measureVars == <<idx, input, startMem, start, results, callLog>>
ratioVars == <<timeRatios, memRatios>>
procVars == <<heapUsed, hrtime>>
fsVars == <<fsDir, fsFiles>>
winVars == <<s, target, charSet, maxLength, leftPointer, rightPointer, wpc>>
vars == <<proc, sizes, outputFileName, oracle, pc, idx, input, startMem, start,
          results, timeRatios, memRatios, callLog, console, error, thread,
          heapUsed, hrtime, fsDir, fsFiles, s, target, charSet, maxLength,
          leftPointer, rightPointer, wpc>>

\* ---------------------------------------------------------- pure functions
RECURSIVE SumFrom(_, _)
\* ratios.reduce((a, b) => a + b, 0), folded from the left
SumFrom(acc, sq) ==
  IF sq = <<>> THEN acc ELSE SumFrom(NumAdd(acc, Head(sq)), Tail(sq))

\* variant of ComplexityOf: the first threshold is compared with <= instead of <
ComplexityOf_Inclusive(avgRatio) ==
  IF ~NumLt(Fin(3, 2), avgRatio) /\ avgRatio.k # "nan" THEN VerdictConstant
  ELSE IF NumLt(avgRatio, Fin(3, 1)) THEN VerdictLinear
  ELSE IF NumLt(avgRatio, Fin(6, 1)) THEN VerdictNearLinear
  ELSE VerdictQuadratic

\* variant of ComplexityOf: the last bucket is tested like the others, and a
\* mean that passes no test gets no verdict
ComplexityOf_NoDefault(avgRatio) ==
  IF NumLt(avgRatio, Fin(3, 2)) THEN VerdictConstant
  ELSE IF NumLt(avgRatio, Fin(3, 1)) THEN VerdictLinear
  ELSE IF NumLt(avgRatio, Fin(6, 1)) THEN VerdictNearLinear
  ELSE IF ~NumLt(avgRatio, Fin(6, 1)) /\ avgRatio.k # "nan" THEN VerdictQuadratic
  ELSE "undefined"

\* the comparisons of estimateComplexity on avgRatio
ComplexityOf(avgRatio) ==
  IF NumLt(avgRatio, Fin(3, 2)) THEN VerdictConstant
  ELSE IF NumLt(avgRatio, Fin(3, 1)) THEN VerdictLinear
  ELSE IF NumLt(avgRatio, Fin(6, 1)) THEN VerdictNearLinear
  ELSE VerdictQuadratic

\* variant of estimateComplexity: the sum is divided by one more than the
\* number of ratios
estimateComplexity_OffByOne(ratios) ==
  LET avgRatio == NumDiv(SumFrom(Fin(0, 1), ratios), Fin(Len(ratios) + 1, 1))
  IN  ComplexityOf(avgRatio)

\* estimateComplexity(ratios)
estimateComplexity(ratios) ==
  LET avgRatio == NumDiv(SumFrom(Fin(0, 1), ratios), Fin(Len(ratios), 1))
  IN  ComplexityOf(avgRatio)

\* timeMs = Number(end - start) / 1_000_000
TimeMsOf(startNs, endNs) == NumDiv(Fin(endNs - startNs, 1), Fin(NsPerMs, 1))

\* memoryMb = (endMem - startMem) / 1024 / 1024
MemoryMbOf(startB, endB) ==
  NumDiv(NumDiv(Fin(endB - startB, 1), Fin(BytesPerKb, 1)), Fin(BytesPerKb, 1))

\* variant of TimeRatio: the quotient is taken the wrong way round
TimeRatio_Inverted(prev, curr) == NumDiv(prev.timeMs, curr.timeMs)

\* timeRatios.push(results[i].timeMs / results[i - 1].timeMs)
TimeRatio(prev, curr) == NumDiv(curr.timeMs, prev.timeMs)

\* variant of MemRatio: the epsilon replaces every denominator that is <= 0
MemRatio_FloorDenominator(prev, curr) ==
  NumMax(NumDiv(curr.memoryMb,
                IF NumLt(Fin(0, 1), prev.memoryMb) THEN prev.memoryMb ELSE Epsilon),
         Fin(0, 1))

\* memRatios.push(Math.max(results[i].memoryMb / (results[i - 1].memoryMb || 0.0001), 0))
MemRatio(prev, curr) ==
  NumMax(NumDiv(curr.memoryMb, NumOr(prev.memoryMb, Epsilon)), Fin(0, 1))

\* the timeRatios the loop for (let i = 1; i < results.length; i++) pushes
TimeRatiosOf(pts) == [i \in 1..(Len(pts) - 1) |-> TimeRatio(pts[i], pts[i + 1])]

\* the memRatios the same loop pushes
MemRatiosOf(pts) == [i \in 1..(Len(pts) - 1) |-> MemRatio(pts[i], pts[i + 1])]

\* variant of BenchmarkPoint: the map index is stored instead of the element
BenchmarkPoint_Index(szs, i, timeMs, memoryMb) ==
  [n |-> i, timeMs |-> timeMs, memoryMb |-> memoryMb]

\* the point the map callback returns for the i-th element n of szs:
\* return { n, timeMs, memoryMb }
BenchmarkPoint(szs, i, timeMs, memoryMb) ==
  [n |-> szs[i], timeMs |-> timeMs, memoryMb |-> memoryMb]

\* variant of AfterCallback: the loop bound is off by one, the last size is skipped
AfterCallback_SkipLast(szs, i) == IF i < Len(szs) - 1 THEN "generate" ELSE "table"

\* sizes.map after the callback of element i: the next element, or past the map
AfterCallback(szs, i) == IF i < Len(szs) THEN "generate" ELSE "table"

\* ------------------------------------------------------------------ actions
\* variant of Reject: the error is caught and the run goes on to report what
\* it has measured so far
Reject_Swallow(r, e) ==
  /\ pc' = [pc EXCEPT ![r] = "table"]
  /\ error' = [error EXCEPT ![r] = e]
  /\ thread' = thread

\* a throw inside benchmark(): the async function rejects its promise with e
\* and gives the thread back; nothing after the throwing statement runs
Reject(r, e) ==
  /\ pc' = [pc EXCEPT ![r] = "rejected"]
  /\ error' = [error EXCEPT ![r] = e]
  /\ thread' = [thread EXCEPT ![proc[r]] = 0]

\* benchmark() is called: the two header lines, then sizes.map starts
Begin(r) ==
  /\ pc[r] = "idle"
  /\ thread[proc[r]] = 0
  /\ thread' = [thread EXCEPT ![proc[r]] = r]
  /\ console' = [console EXCEPT ![r] =
         @ \o <<<<"log", "Benchmark: name">>, <<"log", "-----------------------------------">>>>]
  /\ idx' = [idx EXCEPT ![r] = 1]
  /\ pc' = [pc EXCEPT ![r] = IF sizes[r] = <<>> THEN "table" ELSE "generate"]
  /\ UNCHANGED <<winVars, argVars, input, startMem, start, results, callLog, ratioVars,
                 error, procVars, fsVars>>

\* const input = generator(n)
Generate(r) ==
  /\ pc[r] = "generate"
  /\ thread[proc[r]] = r
  /\ callLog' = [callLog EXCEPT ![r] = Append(@, <<"generator", sizes[r][idx[r]]>>)]
  /\ IF oracle[r].fault = <<"generator", idx[r]>>
       THEN /\ Reject(r, "GeneratorError")
            /\ UNCHANGED input
       ELSE /\ input' = [input EXCEPT ![r] = sizes[r][idx[r]]]
            /\ pc' = [pc EXCEPT ![r] = "measure"]
            /\ UNCHANGED <<error, thread>>
  /\ UNCHANGED <<winVars, argVars, idx, startMem, start, results, ratioVars, console,
                 procVars, fsVars>>

\* measureTimeAndMemory up to the call of fn: global.gc?.(), startMem, start
MeasureStart(r) ==
  /\ pc[r] = "measure"
  /\ thread[proc[r]] = r
  /\ startMem' = [startMem EXCEPT ![r] = heapUsed[proc[r]]]
  /\ start' = [start EXCEPT ![r] = hrtime[proc[r]]]
  /\ pc' = [pc EXCEPT ![r] = "invoke"]
  /\ UNCHANGED <<winVars, argVars, idx, input, results, callLog, ratioVars, console,
                 error, thread, procVars, fsVars>>

\* variant of Invoke: the measurement awaits fn, so the call suspends between
\* the baseline capture and the capture after the invocation
Invoke_Await(r) ==
  /\ pc[r] = "invoke"
  /\ thread[proc[r]] = r
  /\ callLog' = [callLog EXCEPT ![r] = Append(@, <<"fn", input[r]>>)]
  /\ IF oracle[r].fault = <<"fn", idx[r]>>
       THEN /\ Reject(r, "FnError")
            /\ UNCHANGED procVars
       ELSE /\ heapUsed' = [heapUsed EXCEPT ![proc[r]] = @ + oracle[r].heapDeltaB[idx[r]]]
            /\ hrtime' = [hrtime EXCEPT ![proc[r]] = @ + oracle[r].elapsedNs[idx[r]]]
            /\ pc' = [pc EXCEPT ![r] = "capture"]
            /\ thread' = [thread EXCEPT ![proc[r]] = 0]
            /\ UNCHANGED error
  /\ UNCHANGED <<winVars, argVars, idx, input, startMem, start, results, ratioVars,
                 console, fsVars>>

\* const result = fn(): the closure calls fn(input); the call takes
\* elapsedNs of the clock and changes the heap by heapDeltaB, or throws
Invoke(r) ==
  /\ pc[r] = "invoke"
  /\ thread[proc[r]] = r
  /\ callLog' = [callLog EXCEPT ![r] = Append(@, <<"fn", input[r]>>)]
  /\ IF oracle[r].fault = <<"fn", idx[r]>>
       THEN /\ Reject(r, "FnError")
            /\ UNCHANGED procVars
       ELSE /\ heapUsed' = [heapUsed EXCEPT ![proc[r]] = @ + oracle[r].heapDeltaB[idx[r]]]
            /\ hrtime' = [hrtime EXCEPT ![proc[r]] = @ + oracle[r].elapsedNs[idx[r]]]
            /\ pc' = [pc EXCEPT ![r] = "capture"]
            /\ UNCHANGED <<error, thread>>
  /\ UNCHANGED <<winVars, argVars, idx, input, startMem, start, results, ratioVars,
                 console, fsVars>>

\* the rest of measureTimeAndMemory (end, endMem, timeMs, memoryMb) and the
\* return { n, timeMs, memoryMb } of the map callback
MeasureEnd(r) ==
  /\ pc[r] = "capture"
  /\ thread[proc[r]] = r
  /\ LET end == hrtime[proc[r]]
         endMem == heapUsed[proc[r]]
         timeMs == TimeMsOf(start[r], end)
         memoryMb == MemoryMbOf(startMem[r], endMem)
     IN  results' = [results EXCEPT ![r] =
             Append(@, BenchmarkPoint(sizes[r], idx[r], timeMs, memoryMb))]
  /\ idx' = [idx EXCEPT ![r] = @ + 1]
  /\ pc' = [pc EXCEPT ![r] = AfterCallback(sizes[r], idx[r])]
  /\ UNCHANGED <<winVars, argVars, input, startMem, start, callLog, ratioVars, console,
                 error, thread, procVars, fsVars>>

\* console.table(results)
Table(r) ==
  /\ pc[r] = "table"
  /\ thread[proc[r]] = r
  /\ console' = [console EXCEPT ![r] = Append(@, <<"table", results[r]>>)]
  /\ pc' = [pc EXCEPT ![r] = "ratios"]
  /\ UNCHANGED <<winVars, argVars, measureVars, ratioVars, error, thread, procVars, fsVars>>

\* the loop that fills timeRatios and memRatios
Ratios(r) ==
  /\ pc[r] = "ratios"
  /\ thread[proc[r]] = r
  /\ timeRatios' = [timeRatios EXCEPT ![r] = TimeRatiosOf(results[r])]
  /\ memRatios' = [memRatios EXCEPT ![r] = MemRatiosOf(results[r])]
  /\ pc' = [pc EXCEPT ![r] = "estimate"]
  /\ UNCHANGED <<winVars, argVars, measureVars, console, error, thread, procVars, fsVars>>

\* the three console.log calls of the complexity estimate
Estimate(r) ==
  /\ pc[r] = "estimate"
  /\ thread[proc[r]] = r
  /\ console' = [console EXCEPT ![r] =
         @ \o << <<"log", "Estimated Complexity:">>,
                 <<"time", estimateComplexity(timeRatios[r])>>,
                 <<"space", estimateComplexity(memRatios[r])>> >>]
  /\ pc' = [pc EXCEPT ![r] = "exists"]
  /\ UNCHANGED <<winVars, argVars, measureVars, ratioVars, error, thread, procVars, fsVars>>

\* if (!fs.existsSync(analyticsDir))
CheckDir(r) ==
  /\ pc[r] = "exists"
  /\ thread[proc[r]] = r
  /\ pc' = [pc EXCEPT ![r] = IF fsDir THEN "render" ELSE "mkdir"]
  /\ UNCHANGED <<winVars, argVars, measureVars, ratioVars, console, error, thread,
                 procVars, fsVars>>

\* fs.mkdirSync(analyticsDir): not recursive, throws EEXIST on an existing path
Mkdir(r) ==
  /\ pc[r] = "mkdir"
  /\ thread[proc[r]] = r
  /\ IF fsDir
       THEN /\ Reject(r, "EEXIST")
            /\ UNCHANGED fsDir
       ELSE /\ fsDir' = TRUE
            /\ pc' = [pc EXCEPT ![r] = "render"]
            /\ UNCHANGED <<error, thread>>
  /\ UNCHANGED <<winVars, argVars, measureVars, ratioVars, console, procVars, fsFiles>>

\* await chartJSNodeCanvas.renderToBuffer(configuration): the call suspends
Render(r) ==
  /\ pc[r] = "render"
  /\ thread[proc[r]] = r
  /\ thread' = [thread EXCEPT ![proc[r]] = 0]
  /\ pc' = [pc EXCEPT ![r] = "rendering"]
  /\ UNCHANGED <<winVars, argVars, measureVars, ratioVars, console, error, procVars, fsVars>>

\* variant of WriteChart: the 'Chart generated at' line is printed before
\* fs.writeFileSync is called
WriteChart_LogFirst(r) ==
  /\ pc[r] = "rendering"
  /\ thread[proc[r]] = 0
  /\ IF oracle[r].fault = <<"render", 0>>
       THEN /\ Reject(r, "RenderError")
            /\ UNCHANGED <<fsFiles, console>>
       ELSE IF oracle[r].fault = <<"write", 0>>
       THEN /\ Reject(r, "WriteError")
            /\ console' = [console EXCEPT ![r] =
                   Append(@, <<"chart", outputFileName[r]>>)]
            /\ UNCHANGED fsFiles
       ELSE /\ fsFiles' = {f \in fsFiles : f.path # outputFileName[r]}
                            \cup {[path |-> outputFileName[r], data |-> results[r]]}
            /\ console' = [console EXCEPT ![r] =
                   Append(@, <<"chart", outputFileName[r]>>)]
            /\ pc' = [pc EXCEPT ![r] = "resolved"]
            /\ UNCHANGED <<error, thread>>
  /\ UNCHANGED <<winVars, argVars, measureVars, ratioVars, procVars, fsDir>>

\* the continuation after the await: the render result, fs.writeFileSync and
\* the final console.log run in one turn of the event loop
WriteChart(r) ==
  /\ pc[r] = "rendering"
  /\ thread[proc[r]] = 0
  /\ IF oracle[r].fault = <<"render", 0>>
       THEN /\ Reject(r, "RenderError")
            /\ UNCHANGED <<fsFiles, console>>
       ELSE IF oracle[r].fault = <<"write", 0>>
       THEN /\ Reject(r, "WriteError")
            /\ UNCHANGED <<fsFiles, console>>
       ELSE /\ fsFiles' = {f \in fsFiles : f.path # outputFileName[r]}
                            \cup {[path |-> outputFileName[r], data |-> results[r]]}
            /\ console' = [console EXCEPT ![r] =
                   Append(@, <<"chart", outputFileName[r]>>)]
            /\ pc' = [pc EXCEPT ![r] = "resolved"]
            /\ UNCHANGED <<error, thread>>
  /\ UNCHANGED <<winVars, argVars, measureVars, ratioVars, procVars, fsDir>>

Next ==
  \E r \in Runs :
    \/ Begin(r)
    \/ Generate(r)
    \/ MeasureStart(r)
    \/ Invoke(r)
    \/ MeasureEnd(r)
    \/ Table(r)
    \/ Ratios(r)
    \/ Estimate(r)
    \/ CheckDir(r)
    \/ Mkdir(r)
    \/ Render(r)
    \/ WriteChart(r)

\* ------------------------------------------------------------ initial states
\* sequences over S of length lo..hi
SeqsOf(S, lo, hi) == UNION {[1..n -> S] : n \in lo..hi}

\* the steps that can throw in a call with sizes s, among the kinds FK
FaultsOf(sq, FK) ==
  {<<"none", 0>>}
    \cup {<<k, j>> : k \in FK \cap {"generator", "fn"}, j \in 1..Len(sq)}
    \cup {<<k, 0>> : k \in FK \cap {"render", "write"}}

\* one call with sizes from SD; each invocation of fn takes a pair
\* <<nanoseconds, heap bytes>> of MD
CallsOf(SD, MD, FK) ==
  UNION {{[called |-> TRUE, sizes |-> sq, elapsedNs |-> [i \in 1..Len(sq) |-> m[i][1]],
           heapDeltaB |-> [i \in 1..Len(sq) |-> m[i][2]], fault |-> f] :
            m \in [1..Len(sq) -> MD], f \in FaultsOf(sq, FK)} :
         sq \in SD}

\* a call the scenario does not make
NoCall ==
  [called |-> FALSE, sizes |-> <<>>, elapsedNs |-> <<>>, heapDeltaB |-> <<>>,
   fault |-> <<"none", 0>>]

\* lengthOfLongestSubstring has not been called
WindowIdle ==
  /\ s = <<>>
  /\ target = "es2015"
  /\ charSet = {}
  /\ maxLength = 0
  /\ leftPointer = 0
  /\ rightPointer = 0
  /\ wpc = "idle"

\* the state before any call has started, for calls c1 and c2 placed by pr
InitOf(c1, c2, pr, dir) ==
  LET c == <<c1, c2>> IN
  /\ proc = pr
  /\ sizes = [r \in Runs |-> c[r].sizes]
  /\ outputFileName = [r \in Runs |-> IF r = 1 THEN "lengthOfLongestSubstring.png"
                                      ELSE "lengthOfLongestSubstringBruteForce.png"]
  /\ oracle = [r \in Runs |-> [called |-> c[r].called, elapsedNs |-> c[r].elapsedNs,
                               heapDeltaB |-> c[r].heapDeltaB, fault |-> c[r].fault]]
  /\ pc = [r \in Runs |-> IF c[r].called THEN "idle" ELSE "uncalled"]
  /\ idx = [r \in Runs |-> 0]
  /\ input = [r \in Runs |-> 0]
  /\ startMem = [r \in Runs |-> 0]
  /\ start = [r \in Runs |-> 0]
  /\ results = [r \in Runs |-> <<>>]
  /\ timeRatios = [r \in Runs |-> <<>>]
  /\ memRatios = [r \in Runs |-> <<>>]
  /\ callLog = [r \in Runs |-> <<>>]
  /\ console = [r \in Runs |-> <<>>]
  /\ error = [r \in Runs |-> "none"]
  /\ thread = [p \in Procs |-> 0]
  /\ heapUsed = [p \in Procs |-> 64 * BytesPerKb * BytesPerKb]
  /\ hrtime = [p \in Procs |-> 0]
  /\ fsDir = dir
  /\ fsFiles = {}
  /\ WindowIdle

\* sizes a caller passes: any order, repeats allowed
SizeVals == {10, 100, 1000}
AllFaults == {"generator", "fn", "render", "write"}

\* one call of benchmark() with any sizes list of up to MaxLen sizes
Init ==
  \E c1 \in CallsOf(SeqsOf(SizeVals, 0, MaxLen), {1000000, 2000000} \X {BytesPerKb}, AllFaults),
     dir \in BOOLEAN :
    InitOf(c1, NoCall, [r \in Runs |-> 1], dir)

Spec == Init /\ [][Next]_vars

\* metrics that make the growth ratios cross the thresholds and degenerate:
\* <<nanoseconds of the clock, bytes of the heap>> of one invocation
Mb == BytesPerKb * BytesPerKb
Metrics == {<<0, -3 * Mb>>, <<0, 0>>, <<1, 0>>, <<1, -3 * Mb>>,
            <<3, 3 * Mb>>, <<3, 6 * Mb>>, <<6, 3 * Mb>>, <<6, 6 * Mb>>}

\* one call over 2..MaxPts ascending sizes whose metrics range over Metrics
InitRatio ==
  \E c1 \in CallsOf({[i \in 1..n |-> 100 * i] : n \in 2..MaxPts}, Metrics, {}),
     dir \in BOOLEAN :
    InitOf(c1, NoCall, [r \in Runs |-> 1], dir)

SpecRatio == InitRatio /\ [][Next]_vars

\* sizes and constants for metrics that follow a growth law exactly
ScaleVals == {1, 2, 3, 4, 8}
NamedSizes == {<<100, 1000, 10000>>, <<10, 100, 1000, 10000>>}
ScaleC == {1, 2, 3}

\* n to the power e, e in {1, 2}
Pow(n, e) == IF e = 1 THEN n ELSE n * n

\* one call whose i-th invocation of fn takes c * size^et nanoseconds and
\* c * size^em bytes
ScaledCalls(SD) ==
  {[called |-> TRUE, sizes |-> sq,
    elapsedNs |-> [i \in 1..Len(sq) |-> c * Pow(sq[i], et)],
    heapDeltaB |-> [i \in 1..Len(sq) |-> c * Pow(sq[i], em)],
    fault |-> <<"none", 0>>] :
      sq \in SD, c \in ScaleC, et \in {1, 2}, em \in {1, 2}}

\* one call over 2..MaxLen sizes in any order, or over one of the sizes lists
\* the README and the benchmarks use, with metrics that scale exactly
InitScale ==
  \E c1 \in ScaledCalls(SeqsOf(ScaleVals, 2, MaxLen) \cup NamedSizes), dir \in BOOLEAN :
    InitOf(c1, NoCall, [r \in Runs |-> 1], dir)

SpecScale == InitScale /\ [][Next]_vars

\* two calls, in one process or in two processes sharing the working directory
InitRace ==
  \E c1 \in CallsOf({<<100, 1000>>}, {<<1000000, BytesPerKb>>}, {"render", "write"}),
     c2 \in CallsOf({<<100, 1000>>}, {<<1000000, BytesPerKb>>}, {"render", "write"}),
     pr \in [Runs -> Procs], dir \in BOOLEAN :
    InitOf(c1, c2, pr, dir)

SpecRace == InitRace /\ [][Next]_vars

\* ------------------------------------------- lengthOfLongestSubstring
\* strings are sequences of UTF-16 code units; a code unit is its number
IsHighSurrogate(u) == u >= 55296 /\ u <= 56319
IsLowSurrogate(u) == u >= 56320 /\ u <= 57343

\* the value JavaScript gives for an index past the end of a string
Undefined == -1

\* str[i], i counted from 0: one code unit
At(str, i) == IF i >= 0 /\ i < Len(str) THEN str[i + 1] ELSE Undefined

\* str.slice(i, j), i and j counted from 0: code units i .. j - 1
slice(str, i, j) == SubSeq(str, i + 1, j)

\* Math.max on integers
Max(a, b) == IF a >= b THEN a ELSE b

\* the values of char in "for (const char of substring)", from the k-th code
\* unit on: the string iterator of ES2015 yields code points, a surrogate
\* pair as one two-unit string; the index loop an ES5 build emits yields
\* single code units
RECURSIVE CharsOf(_, _, _)
CharsOf(substring, k, tg) ==
  IF k > Len(substring) THEN <<>>
  ELSE IF /\ tg = "es2015"
          /\ IsHighSurrogate(substring[k])
          /\ k < Len(substring)
          /\ IsLowSurrogate(substring[k + 1])
       THEN <<SubSeq(substring, k, k + 1)>> \o CharsOf(substring, k + 2, tg)
       ELSE <<SubSeq(substring, k, k)>> \o CharsOf(substring, k + 1, tg)

\* the loop of allUnique over the remaining values of char
RECURSIVE SeenLoop(_, _)
SeenLoop(chars, seen) ==
  IF chars = <<>> THEN TRUE
  ELSE IF Head(chars) \in seen THEN FALSE
       ELSE SeenLoop(Tail(chars), seen \cup {Head(chars)})

allUnique(substring, tg) == SeenLoop(CharsOf(substring, 1, tg), {})

\* the inner loop of lengthOfLongestSubstringBruteForce, from j on
RECURSIVE BruteInner(_, _, _, _, _)
BruteInner(str, i, j, m, tg) ==
  IF j >= Len(str) THEN m
  ELSE LET substring == slice(str, i, j + 1) IN
       BruteInner(str, i, j + 1,
                  IF allUnique(substring, tg) THEN Max(m, Len(substring)) ELSE m, tg)

\* the outer loop of lengthOfLongestSubstringBruteForce, from i on
RECURSIVE BruteOuter(_, _, _, _)
BruteOuter(str, i, m, tg) ==
  IF i >= Len(str) THEN m
  ELSE BruteOuter(str, i + 1, BruteInner(str, i, i, m, tg), tg)

lengthOfLongestSubstringBruteForce(str, tg) == BruteOuter(str, 0, 0, tg)

\* lengthOfLongestSubstring(s) is called: charSet, maxLength, leftPointer
\* and rightPointer are initialised
WinCall ==
  /\ wpc = "called"
  /\ charSet' = {}
  /\ maxLength' = 0
  /\ leftPointer' = 0
  /\ rightPointer' = 0
  /\ wpc' = "for"
  /\ UNCHANGED <<s, target>>

\* the test of the for loop: rightPointer < s.length
WinFor ==
  /\ wpc = "for"
  /\ wpc' = IF rightPointer < Len(s) THEN "while" ELSE "return"
  /\ UNCHANGED <<s, target, charSet, maxLength, leftPointer, rightPointer>>

\* one round of the while loop: s[rightPointer] is in charSet
WinShrink ==
  /\ wpc = "while"
  /\ At(s, rightPointer) \in charSet
  /\ charSet' = charSet \ {At(s, leftPointer)}
  /\ leftPointer' = leftPointer + 1
  /\ UNCHANGED <<s, target, maxLength, rightPointer, wpc>>

\* the while loop ends; charSet.add(s[rightPointer]) and
\* maxLength = Math.max(maxLength, charSet.size)
WinAdd ==
  /\ wpc = "while"
  /\ At(s, rightPointer) \notin charSet
  /\ charSet' = charSet \cup {At(s, rightPointer)}
  /\ maxLength' = Max(maxLength, Cardinality(charSet'))
  /\ wpc' = "added"
  /\ UNCHANGED <<s, target, leftPointer, rightPointer>>

\* rightPointer++
WinIncrement ==
  /\ wpc = "added"
  /\ rightPointer' = rightPointer + 1
  /\ wpc' = "for"
  /\ UNCHANGED <<s, target, charSet, maxLength, leftPointer>>

\* return maxLength
WinReturn ==
  /\ wpc = "return"
  /\ wpc' = "returned"
  /\ UNCHANGED <<s, target, charSet, maxLength, leftPointer, rightPointer>>

benchVars == <<proc, sizes, outputFileName, oracle, pc, idx, input, startMem,
               start, results, timeRatios, memRatios, callLog, console, error,
               thread, heapUsed, hrtime, fsDir, fsFiles>>

NextWindow ==
  /\ \/ WinCall
     \/ WinFor
     \/ WinShrink
     \/ WinAdd
     \/ WinIncrement
     \/ WinReturn
  /\ UNCHANGED benchVars

\* longest string passed to lengthOfLongestSubstring
MaxStr == 4

\* code units: "a", "b", the high surrogate U+D83D and the low surrogates
\* U+DE00 and U+DE01 (U+D83D U+DE00 and U+D83D U+DE01 are two emoji)
CodeUnits == {97, 98, 55357, 56832, 56833}
Targets == {"es5", "es2015"}

\* one call of lengthOfLongestSubstring on any string of up to MaxStr code
\* units, the empty string included, in either build; benchmark() is not called
InitWindow ==
  /\ \E dir \in {FALSE} :
       /\ proc = [r \in Runs |-> 1]
       /\ sizes = [r \in Runs |-> <<>>]
       /\ outputFileName = [r \in Runs |-> "lengthOfLongestSubstring.png"]
       /\ oracle = [r \in Runs |-> [called |-> FALSE, elapsedNs |-> <<>>,
                                    heapDeltaB |-> <<>>, fault |-> <<"none", 0>>]]
       /\ pc = [r \in Runs |-> "uncalled"]
       /\ idx = [r \in Runs |-> 0]
       /\ input = [r \in Runs |-> 0]
       /\ startMem = [r \in Runs |-> 0]
       /\ start = [r \in Runs |-> 0]
       /\ results = [r \in Runs |-> <<>>]
       /\ timeRatios = [r \in Runs |-> <<>>]
       /\ memRatios = [r \in Runs |-> <<>>]
       /\ callLog = [r \in Runs |-> <<>>]
       /\ console = [r \in Runs |-> <<>>]
       /\ error = [r \in Runs |-> "none"]
       /\ thread = [p \in Procs |-> 0]
       /\ heapUsed = [p \in Procs |-> 64 * BytesPerKb * BytesPerKb]
       /\ hrtime = [p \in Procs |-> 0]
       /\ fsDir = dir
       /\ fsFiles = {}
  /\ s \in SeqsOf(CodeUnits, 0, MaxStr)
  /\ target \in Targets
  /\ charSet = {}
  /\ maxLength = 0
  /\ leftPointer = 0
  /\ rightPointer = 0
  /\ wpc = "called"

SpecWindow == InitWindow /\ [][NextWindow]_vars

\* ------------------------------------------------------------------- claims
\* call r has left sizes.map without a throw
Measured(r) ==
  \/ pc[r] \in {"table", "ratios", "estimate", "exists", "mkdir", "render",
               "rendering", "resolved"}
  \/ pc[r] = "rejected" /\ error[r] \in {"EEXIST", "RenderError", "WriteError"}

\* what call r printed under the tag dim
Reported(r, dim) ==
  {console[r][k][2] : k \in {j \in DOMAIN console[r] : console[r][j][1] = dim}}

IsPrefix(sq, t) == Len(sq) <= Len(t) /\ \A k \in 1..Len(sq) : sq[k] = t[k]

\* C1: once the measurement phase of a call is over, results has as many
\* points as sizes has elements, and the i-th point carries the i-th size,
\* in the order supplied, ascending or not.
C1_ResultsMatchSizes ==
  \A r \in Runs :
    Measured(r) =>
      /\ Len(results[r]) = Len(sizes[r])
      /\ \A i \in 1..Len(sizes[r]) : results[r][i].n = sizes[r][i]

\* a finished measurement phase over a sizes list that is not ascending
C1_Witness ==
  \E r \in Runs :
    /\ Measured(r)
    /\ Len(sizes[r]) = 3
    /\ sizes[r][1] > sizes[r][2]
    /\ results[r][3].n = sizes[r][3]

\* the calls a run over s makes: generator(s[1]), fn(input 1), generator(s[2]), ...
ExpectedCalls(sq) ==
  [k \in 1..(2 * Len(sq)) |->
     IF k % 2 = 1 THEN <<"generator", sq[(k + 1) \div 2]>> ELSE <<"fn", sq[k \div 2]>>]

\* C2: the sizes are processed one at a time in the order given: generator
\* once, then fn exactly once on that input, then the next size; at the end
\* of the measurement phase every size has had exactly this pair of calls.
C2_SequentialCalls ==
  \A r \in Runs :
    /\ IsPrefix(callLog[r], ExpectedCalls(sizes[r]))
    /\ Measured(r) => callLog[r] = ExpectedCalls(sizes[r])
    /\ pc[r] = "generate" => Len(callLog[r]) = 2 * (idx[r] - 1)
    /\ pc[r] \in {"measure", "invoke"} =>
         /\ Len(callLog[r]) = 2 * idx[r] - 1
         /\ input[r] = sizes[r][idx[r]]

\* a run that has measured three sizes, the first two equal
C2_Witness ==
  \E r \in Runs :
    /\ Measured(r)
    /\ Len(sizes[r]) = 3
    /\ sizes[r][1] = sizes[r][2]
    /\ Len(callLog[r]) = 6

\* the index of the size at which the generator or fn of call r throws, or 0
ThrowsAt(r) ==
  IF oracle[r].fault[1] \in {"generator", "fn"} THEN oracle[r].fault[2] ELSE 0

\* C8: with a sizes list of length 0 or 1 the estimator is guarded by its
\* caller, so none of the four complexity buckets is printed for time or
\* for space.
C8_ShortRunReportsNoBucket ==
  \A r \in Runs :
    Len(sizes[r]) < 2 =>
      /\ Reported(r, "time") \cap Verdicts = {}
      /\ Reported(r, "space") \cap Verdicts = {}

\* C9: when the generator or fn throws at the size of index j, the promise
\* rejects with that very error, no later size is generated or measured,
\* and the run prints no table and no verdict and writes no chart.
C9_ThrowAbortsRun ==
  \A r \in Runs :
    LET j == ThrowsAt(r) IN
    j > 0 =>
      /\ ~Measured(r)
      /\ Len(results[r]) < j
      /\ Len(callLog[r]) <= (IF oracle[r].fault[1] = "generator" THEN 2 * j - 1 ELSE 2 * j)
      /\ \A k \in DOMAIN callLog[r] : (k + 1) \div 2 <= j
      /\ Reported(r, "table") = {} /\ Reported(r, "time") = {}
      /\ Reported(r, "space") = {} /\ Reported(r, "chart") = {}
      /\ \A f \in fsFiles : f.path # outputFileName[r]
      /\ pc[r] = "rejected" =>
           /\ error[r] = (IF oracle[r].fault[1] = "generator"
                          THEN "GeneratorError" ELSE "FnError")
           /\ Len(results[r]) = j - 1
           /\ thread[proc[r]] # r

\* fn has thrown at the second of three sizes and the promise is rejected
C9_Witness ==
  \E r \in Runs :
    /\ oracle[r].fault = <<"fn", 2>>
    /\ Len(sizes[r]) = 3
    /\ pc[r] = "rejected"
    /\ error[r] = "FnError"
    /\ Len(results[r]) = 1

\* call r has printed its complexity estimate
Estimated(r) ==
  \/ pc[r] \in {"exists", "mkdir", "render", "rendering", "resolved"}
  \/ pc[r] = "rejected" /\ error[r] \in {"EEXIST", "RenderError", "WriteError"}

RECURSIVE ProdDen(_)
\* the product of the denominators of a sequence of finite numbers
ProdDen(q) == IF q = <<>> THEN 1 ELSE Head(q).d * ProdDen(Tail(q))

RECURSIVE SumOver(_, _)
\* the sum of the finite numbers of q as an integer numerator over D
SumOver(q, D) ==
  IF q = <<>> THEN 0 ELSE Head(q).n * (D \div Head(q).d) + SumOver(Tail(q), D)

\* the bucket of the mean N / M (M > 0) by the thresholds 1.5, 3 and 6
BucketOf(N, M) ==
  IF 2 * N < 3 * M THEN VerdictConstant
  ELSE IF N < 3 * M THEN VerdictLinear
  ELSE IF N < 6 * M THEN VerdictNearLinear
  ELSE VerdictQuadratic

\* the bucket of the arithmetic mean of the non-empty ratio sequence q none
\* of whose elements is NaN or -Infinity; the mean is +Infinity as soon as
\* one ratio is
MeanBucket(q) ==
  IF \E k \in DOMAIN q : q[k].k = "inf" THEN VerdictQuadratic
  ELSE BucketOf(SumOver(q, ProdDen(q)), ProdDen(q) * Len(q))

IsNumberSeq(q) ==
  /\ q # <<>>
  /\ \A k \in DOMAIN q : q[k].k = "fin" \/ (q[k].k = "inf" /\ q[k].n > 0)

\* C3: the verdict printed for a non-empty ratio sequence is the bucket of
\* its arithmetic mean m: constant for m < 1.5, linear for 1.5 <= m < 3,
\* near-linear for 3 <= m < 6, quadratic-or-worse for m >= 6.
C3_VerdictByThresholds ==
  \A r \in Runs :
    Estimated(r) =>
      /\ IsNumberSeq(timeRatios[r]) => Reported(r, "time") = {MeanBucket(timeRatios[r])}
      /\ IsNumberSeq(memRatios[r]) => Reported(r, "space") = {MeanBucket(memRatios[r])}

\* time ratios 1 and 2, whose mean is exactly 1.5, were classified as linear,
\* and memory ratios 1 and 2 as well
C3_Witness ==
  \E r \in Runs :
    /\ Estimated(r)
    /\ timeRatios[r] = <<Fin(1, 1), Fin(2, 1)>>
    /\ memRatios[r] = <<Fin(1, 1), Fin(2, 1)>>
    /\ Reported(r, "time") = {VerdictLinear}
    /\ Reported(r, "space") = {VerdictLinear}

\* the time mean is exactly 3 and the verdict is near-linear
C3_WitnessThree ==
  \E r \in Runs :
    /\ Estimated(r)
    /\ timeRatios[r] = <<Fin(3, 1)>>
    /\ Reported(r, "time") = {VerdictNearLinear}

\* the time mean is exactly 6 and the verdict is quadratic-or-worse
C3_WitnessSix ==
  \E r \in Runs :
    /\ Estimated(r)
    /\ timeRatios[r] = <<Fin(6, 1)>>
    /\ Reported(r, "time") = {VerdictQuadratic}

\* some ratio of call r has a denominator that is 0 (time, memory) or
\* negative (memory)
DegenerateDenominator(r) ==
  \E i \in 1..(Len(results[r]) - 1) :
    \/ results[r][i].timeMs.n <= 0
    \/ results[r][i].memoryMb.n <= 0

\* C6: whenever a previous point's metric is 0 or negative, the ratio
\* computation raises nothing and the classification completes: the run
\* prints exactly one time verdict and one space verdict, each one of the
\* four fixed values.
C6_DegenerateDenominatorClassified ==
  \A r \in Runs :
    (Measured(r) /\ Len(results[r]) >= 2 /\ DegenerateDenominator(r)) =>
      /\ error[r] = "none"
      /\ pc[r] # "rejected"
      /\ Estimated(r) =>
           /\ Cardinality(Reported(r, "time")) = 1
           /\ Cardinality(Reported(r, "space")) = 1
           /\ Reported(r, "time") \subseteq Verdicts
           /\ Reported(r, "space") \subseteq Verdicts
      /\ pc[r] \in {"estimate"} \/ Estimated(r) =>
           /\ Len(timeRatios[r]) = Len(results[r]) - 1
           /\ Len(memRatios[r]) = Len(results[r]) - 1

\* a run classified although its first time is 0 (0/0 and 3/0 as time
\* ratios) and its first memory deltas are negative and zero
C6_Witness ==
  \E r \in Runs :
    /\ Estimated(r)
    /\ Len(results[r]) = 3
    /\ results[r][1].timeMs.n = 0 /\ results[r][2].timeMs.n = 0
    /\ results[r][1].memoryMb.n < 0 /\ results[r][2].memoryMb.n = 0
    /\ Reported(r, "time") = {VerdictQuadratic}
    /\ Reported(r, "space") \subseteq Verdicts

\* x = q * y for finite numbers, by cross multiplication
IsQuotient(q, x, y) == q.k = "fin" /\ q.n * x.d * y.n = x.n * q.d * y.d

\* the time ratio as the code computes it: the plain quotient, which is
\* Infinity on a zero denominator and NaN for 0/0
TimeRatioAsCoded(q, x, y) ==
  IF y.n # 0 THEN IsQuotient(q, x, y)
  ELSE IF x.n = 0 THEN q = NaN
  ELSE q = (IF x.n > 0 THEN PosInf ELSE NegInf)

\* the memory ratio as the code computes it: 0.0001 replaces a denominator
\* that is exactly 0, and a negative quotient becomes 0
MemRatioAsCoded(q, x, y) ==
  IF y.n = 0
    THEN q.k = "fin" /\ q.n * x.d = (IF x.n > 0 THEN x.n ELSE 0) * 10000 * q.d
  ELSE IF x.n * y.n < 0 THEN q = Fin(0, 1)
  ELSE IsQuotient(q, x, y)

\* C7 (amended): the time ratio is the plain quotient time[i] / time[i-1],
\* with no substitute denominator and no floor; the memory ratio uses
\* 0.0001 as denominator only when memory[i-1] is exactly 0, a negative
\* memory[i-1] divides as it is, and a negative memory ratio becomes 0.
C7_RatiosAsCoded ==
  \A r \in Runs :
    (pc[r] = "estimate" \/ Estimated(r)) =>
      /\ Len(timeRatios[r]) = Len(results[r]) - 1
      /\ Len(memRatios[r]) = Len(results[r]) - 1
      /\ \A i \in 1..(Len(results[r]) - 1) :
           /\ TimeRatioAsCoded(timeRatios[r][i], results[r][i + 1].timeMs,
                               results[r][i].timeMs)
           /\ MemRatioAsCoded(memRatios[r][i], results[r][i + 1].memoryMb,
                              results[r][i].memoryMb)

\* ratios were taken over a negative memory denominator under a positive
\* numerator (ratio 0, where 3 / 0.0001 = 30000 would be the epsilon's) and
\* over a zero time denominator (ratio Infinity)
C7_Witness ==
  \E r \in Runs :
    /\ Estimated(r)
    /\ Len(results[r]) = 2
    /\ results[r][1].memoryMb = Fin(-3, 1) /\ results[r][2].memoryMb = Fin(3, 1)
    /\ memRatios[r] = <<Fin(0, 1)>>
    /\ results[r][1].timeMs.n = 0 /\ results[r][2].timeMs.n > 0
    /\ timeRatios[r] = <<PosInf>>

\* the ratio the claim describes: the epsilon replaces a denominator <= 0 and
\* a negative ratio becomes 0
RatioAsClaimed(x, y) ==
  NumMax(NumDiv(x, IF NumLt(Fin(0, 1), y) THEN y ELSE Epsilon), Fin(0, 1))

\* C7 as claimed: in both dimensions the ratio is metric[i] / metric[i-1],
\* with 0.0001 as the denominator whenever metric[i-1] <= 0, and negative
\* ratios replaced by 0.
C7_EpsilonFloorBothDimensions ==
  \A r \in Runs :
    (pc[r] = "estimate" \/ Estimated(r)) =>
      \A i \in 1..(Len(results[r]) - 1) :
        /\ timeRatios[r][i] = RatioAsClaimed(results[r][i + 1].timeMs, results[r][i].timeMs)
        /\ memRatios[r][i] = RatioAsClaimed(results[r][i + 1].memoryMb, results[r][i].memoryMb)

\* the points of call r carry the metric c * size^e for one c of ScaleC
TimeScales(r, e) ==
  \E c \in ScaleC : \A i \in 1..Len(results[r]) :
    results[r][i].timeMs = Fin(c * Pow(results[r][i].n, e), NsPerMs)

MemoryScales(r, e) ==
  \E c \in ScaleC : \A i \in 1..Len(results[r]) :
    results[r][i].memoryMb = Fin(c * Pow(results[r][i].n, e), Mb)

\* (s[i+1] / s[i])^e as a fraction in lowest terms: numerator and denominator
StepNum(sq, i, e) == Pow(sq[i + 1] \div GCD(sq[i + 1], sq[i]), e)
StepDen(sq, i, e) == Pow(sq[i] \div GCD(sq[i + 1], sq[i]), e)

RECURSIVE StepDenProd(_, _, _)
StepDenProd(sq, i, e) ==
  IF i = 0 THEN 1 ELSE StepDen(sq, i, e) * StepDenProd(sq, i - 1, e)

RECURSIVE StepSum(_, _, _, _)
StepSum(sq, i, e, D) ==
  IF i = 0 THEN 0
  ELSE StepNum(sq, i, e) * (D \div StepDen(sq, i, e)) + StepSum(sq, i - 1, e, D)

\* the bucket of the mean of (s[i+1] / s[i])^e over the consecutive sizes of s
GrowthBucket(sq, e) ==
  LET D == StepDenProd(sq, Len(sq) - 1, e)
  IN  BucketOf(StepSum(sq, Len(sq) - 1, e, D), D * (Len(sq) - 1))

\* what the code does with a metric c * size: the verdict is the bucket of
\* the mean of the consecutive size ratios size[i] / size[i-1], whatever c
\* is, hence linear only when that mean lies in [1.5, 3)
LinearMetricFollowsSizeRatios ==
  \A r \in Runs :
    (Estimated(r) /\ Len(results[r]) >= 2) =>
      /\ TimeScales(r, 1) => Reported(r, "time") = {GrowthBucket(sizes[r], 1)}
      /\ MemoryScales(r, 1) => Reported(r, "space") = {GrowthBucket(sizes[r], 1)}

\* the sizes [100, 1000, 10000] with a linear time and a linear memory were
\* classified: both verdicts are quadratic-or-worse, the mean ratio being 10
LinearNamedSizesReached ==
  \E r \in Runs :
    /\ Estimated(r)
    /\ sizes[r] = <<100, 1000, 10000>>
    /\ TimeScales(r, 1) /\ MemoryScales(r, 1)
    /\ timeRatios[r] = <<Fin(10, 1), Fin(10, 1)>>
    /\ Reported(r, "time") = {VerdictQuadratic}
    /\ Reported(r, "space") = {VerdictQuadratic}

\* doubling sizes with a linear time were classified as linear
LinearDoublingReached ==
  \E r \in Runs :
    /\ Estimated(r)
    /\ sizes[r] = <<2, 4, 8>>
    /\ TimeScales(r, 1)
    /\ Reported(r, "time") = {VerdictLinear}

\* C4 as claimed: a metric that is c * size is classified as linear, for
\* every c > 0 and every sizes list of at least 2 sizes.
C4_LinearMetricIsLinear ==
  \A r \in Runs :
    (Estimated(r) /\ Len(results[r]) >= 2) =>
      /\ TimeScales(r, 1) => Reported(r, "time") = {VerdictLinear}
      /\ MemoryScales(r, 1) => Reported(r, "space") = {VerdictLinear}

StrictlyIncreasing(sq) == \A i \in 1..(Len(sq) - 1) : sq[i] < sq[i + 1]

\* what the code does with a metric c * size^2: the verdict is the bucket of
\* the mean of the squared consecutive size ratios (size[i] / size[i-1])^2,
\* hence quadratic-or-worse exactly when that mean is at least 6
QuadraticMetricFollowsSquaredRatios ==
  \A r \in Runs :
    (Estimated(r) /\ Len(results[r]) >= 2) =>
      /\ TimeScales(r, 2) => Reported(r, "time") = {GrowthBucket(sizes[r], 2)}
      /\ MemoryScales(r, 2) => Reported(r, "space") = {GrowthBucket(sizes[r], 2)}

\* strictly increasing sizes [2, 3, 4] with a quadratic time and memory were
\* classified as linear: the squared ratios 9/4 and 16/9 have a mean below 3
QuadraticCloseSizesReached ==
  \E r \in Runs :
    /\ Estimated(r)
    /\ sizes[r] = <<2, 3, 4>>
    /\ TimeScales(r, 2) /\ MemoryScales(r, 2)
    /\ timeRatios[r] = <<Fin(9, 4), Fin(16, 9)>>
    /\ Reported(r, "time") = {VerdictLinear}
    /\ Reported(r, "space") = {VerdictLinear}

\* the sizes [100, 1000, 10000] with a quadratic time were classified as
\* quadratic-or-worse
QuadraticNamedSizesReached ==
  \E r \in Runs :
    /\ Estimated(r)
    /\ sizes[r] = <<100, 1000, 10000>>
    /\ TimeScales(r, 2)
    /\ Reported(r, "time") = {VerdictQuadratic}

\* C5 as claimed: a metric that is c * size^2 over strictly increasing sizes
\* is classified as quadratic-or-worse.
C5_QuadraticMetricIsQuadratic ==
  \A r \in Runs :
    (Estimated(r) /\ Len(results[r]) >= 2 /\ StrictlyIncreasing(sizes[r])) =>
      /\ TimeScales(r, 2) => Reported(r, "time") = {VerdictQuadratic}
      /\ MemoryScales(r, 2) => Reported(r, "space") = {VerdictQuadratic}

\* C10: the analytics directory is created idempotently: a run that finds
\* the directory created by another run between its existsSync and its
\* mkdirSync tolerates that and goes on to write its chart; no run fails
\* with the already-exists error.
C10_ExistsRaceTolerated ==
  \A r \in Runs : ~(pc[r] = "rejected" /\ error[r] = "EEXIST")

\* what the code does about the directory: the already-exists error strikes
\* only a run whose existsSync and mkdirSync were separated by the mkdirSync
\* of a run in another process; within one process the two calls are in
\* the same synchronous stretch and no other call runs in between
ExistsRaceNeedsTwoProcesses ==
  \A r \in Runs :
    error[r] = "EEXIST" => \E q \in Runs : q # r /\ proc[q] # proc[r] /\ fsDir

\* the tags of what call r printed, in order
TagsOf(r) == [k \in DOMAIN console[r] |-> console[r][k][1]]

\* the whole console report of a call: the two header lines, the table, the
\* estimate heading, the time verdict and the space verdict
ReportTags == <<"log", "log", "table", "log", "time", "space">>

\* call r has printed its whole report: the table of its results, then a
\* time verdict and a space verdict
ReportEmitted(r) ==
  /\ Len(console[r]) >= Len(ReportTags)
  /\ SubSeq(TagsOf(r), 1, Len(ReportTags)) = ReportTags
  /\ console[r][3][2] = results[r]
  /\ console[r][5][2] \in Verdicts /\ console[r][6][2] \in Verdicts

PersistErrors == {"EEXIST", "RenderError", "WriteError"}

\* call r is at or past its first persistence step that changes something
Persisting(r) ==
  \/ pc[r] \in {"mkdir", "render", "rendering", "resolved"}
  \/ pc[r] = "rejected" /\ error[r] \in PersistErrors

\* the state part of C11
ReportThenPersist ==
  \A r \in Runs :
    /\ Persisting(r) => ReportEmitted(r)
    /\ (pc[r] = "rejected" /\ error[r] \in PersistErrors) =>
         /\ TagsOf(r) = ReportTags
         /\ thread[proc[r]] # r
    /\ Reported(r, "chart") # {} =>
         /\ pc[r] = "resolved"
         /\ TagsOf(r) = ReportTags \o <<"chart">>
         /\ \E f \in fsFiles : f.path = outputFileName[r]
    /\ (\E f \in fsFiles : f.path = outputFileName[r] /\ f.data = results[r]) =>
         pc[r] = "resolved"

\* the step part of C11: the directory and the chart files change only by a
\* step of a call that has printed its whole report, and a rejected call
\* takes no further step (no retry)
NoRetryAndReportFirst ==
  /\ (fsDir' # fsDir \/ fsFiles' # fsFiles) =>
       \E r \in Runs : pc'[r] # pc[r] /\ ReportEmitted(r) /\ console'[r][3] = console[r][3]
  /\ \A r \in Runs :
       pc[r] = "rejected" =>
         /\ pc'[r] = "rejected" /\ error'[r] = error[r]
         /\ console'[r] = console[r] /\ callLog'[r] = callLog[r]

\* C11: the table and both verdicts are printed before the directory
\* creation, the render and the image write begin; a failure of one of these
\* steps rejects the promise after that report, without a retry; and the
\* 'Chart generated at' line is printed only once the image is written.
C11_ReportBeforePersistence ==
  []ReportThenPersist /\ [][NoRetryAndReportFirst]_vars

\* fs.writeFileSync has failed for a call that printed its whole report, its
\* promise is rejected with that error and no chart line was printed
C11_Witness ==
  \E r \in Runs :
    /\ pc[r] = "rejected" /\ error[r] = "WriteError"
    /\ TagsOf(r) = ReportTags
    /\ fsDir /\ \A f \in fsFiles : f.path # outputFileName[r]

\* call r is between the capture of its heap baseline (startMem) and the
\* capture of the heap after the invocation (endMem)
InMeasurement(r) == pc[r] \in {"invoke", "capture"}

\* the state part of C12: two calls of one process are never both inside a
\* measurement, a call inside a measurement holds the thread of its process,
\* and every point carries the time and the heap change of its own invocation
OneMeasurementAtATime ==
  /\ \A r, q \in Runs :
       (r # q /\ proc[r] = proc[q]) => ~(InMeasurement(r) /\ InMeasurement(q))
  /\ \A r \in Runs :
       /\ InMeasurement(r) => thread[proc[r]] = r
       /\ pc[r] = "capture" =>
            heapUsed[proc[r]] - startMem[r] = oracle[r].heapDeltaB[idx[r]]
       /\ \A i \in 1..Len(results[r]) :
            /\ results[r][i].memoryMb = Fin(oracle[r].heapDeltaB[i], Mb)
            /\ results[r][i].timeMs = Fin(oracle[r].elapsedNs[i], NsPerMs)

\* the step part of C12: while a call is inside a measurement, no other call
\* of its process takes a step, and the heap and the clock of the process
\* change by that call only
NoInterleavedStep ==
  \A r \in Runs :
    InMeasurement(r) =>
      /\ \A q \in Runs : (q # r /\ proc[q] = proc[r]) => pc'[q] = pc[q]
      /\ (heapUsed'[proc[r]] # heapUsed[proc[r]] \/ hrtime'[proc[r]] # hrtime[proc[r]]) =>
           pc[r] = "invoke" /\ pc'[r] = "capture"

\* C12: no two measurements execute concurrently: also when several calls
\* of benchmark are started in one process without awaiting the previous
\* one, the stretch from the heap-baseline capture to the capture after the
\* invocation never overlaps or interleaves with that of another
\* measurement.
C12_MeasurementsNeverOverlap ==
  []OneMeasurementAtATime /\ [][NoInterleavedStep]_vars

\* a call is inside its second measurement while another call of the same
\* process, started before it and not awaited, is suspended in its render
C12_Witness ==
  \E r, q \in Runs :
    /\ r # q /\ proc[r] = proc[q]
    /\ pc[q] = "rendering"
    /\ pc[r] = "capture" /\ idx[r] = 2

\* the code units of str[i..j], i and j counted from 0
UnitsOf(str, i, j) == {At(str, k) : k \in i..j}

\* no code unit occurs twice in str[i..j]
NoRepeat(str, i, j) ==
  \A k, l \in i..j : At(str, k) = At(str, l) => k = l

\* the length, in code units, of the longest contiguous substring of str
\* in which no code unit occurs twice
LongestNoRepeat(str) ==
  LET W == {j + 1 - i : <<i, j>> \in
              {w \in (0..(Len(str) - 1)) \X (0..(Len(str) - 1)) :
                 w[1] <= w[2] /\ NoRepeat(str, w[1], w[2])}}
  IN IF W = {} THEN 0 ELSE CHOOSE m \in W : \A n \in W : n <= m

\* the window of the loop: before the add charSet holds the code units of
\* s[leftPointer..rightPointer - 1], after it those of
\* s[leftPointer..rightPointer], each once
WindowInvariant ==
  /\ wpc \in {"for", "while", "return", "returned"} =>
       /\ leftPointer <= rightPointer
       /\ charSet = UnitsOf(s, leftPointer, rightPointer - 1)
       /\ Cardinality(charSet) = rightPointer - leftPointer
  /\ wpc = "added" =>
       /\ leftPointer <= rightPointer
       /\ charSet = UnitsOf(s, leftPointer, rightPointer)
       /\ Cardinality(charSet) = rightPointer + 1 - leftPointer
  /\ leftPointer <= rightPointer + 1

\* C13: for every string s, the empty one included,
\* lengthOfLongestSubstring(s) returns what
\* lengthOfLongestSubstringBruteForce(s) returns, the length of the longest
\* contiguous substring of s without a repeated character; throughout the
\* loop charSet holds exactly the characters of the window, none twice, and
\* leftPointer never exceeds rightPointer + 1.
C13_SlidingWindowEqualsBruteForce ==
  /\ WindowInvariant
  /\ wpc = "returned" =>
       /\ maxLength = lengthOfLongestSubstringBruteForce(s, target)
       /\ maxLength = LongestNoRepeat(s)

\* what holds of lengthOfLongestSubstring alone: the window invariant, and
\* the result is the longest run of distinct code units
SlidingWindowIsLongestNoRepeat ==
  /\ WindowInvariant
  /\ wpc = "returned" => maxLength = LongestNoRepeat(s)

\* the two functions agree when the loop of allUnique iterates code units,
\* and when s holds no surrogate pair
AgreeWithoutSurrogatePairs ==
  (/\ wpc = "returned"
   /\ \/ target = "es5"
      \/ \A k \in 1..(Len(s) - 1) :
           ~(IsHighSurrogate(s[k]) /\ IsLowSurrogate(s[k + 1])))
    => maxLength = lengthOfLongestSubstringBruteForce(s, target)

\* the two emoji U+1F600 U+1F601 in an ES2015 build: the window returns 3,
\* the brute force 4
EmojiPairReturnsThreeAndFour ==
  /\ wpc = "returned"
  /\ s = <<55357, 56832, 55357, 56833>>
  /\ target = "es2015"
  /\ maxLength = 3
  /\ lengthOfLongestSubstringBruteForce(s, target) = 4

====
